---- MODULE Spec2Model ----
(***************************************************************************)
(* Model of the repository mirrorer (src/repository-mirrorer/repo-sync.py):*)
(* RepoSyncer.sync_all drives RepoSyncer.sync_repository once per          *)
(* (repository, target org) pair; each pair reads the source metadata,     *)
(* looks the target up, clones the source default branch into a temporary  *)
(* workspace, creates or fast-forwards the target and writes the metadata  *)
(* back.  The hosting service, git and the filesystem are the environment: *)
(* every call to them may fail, and another writer may move the target     *)
(* branch at any time.                                                     *)
(***************************************************************************)
EXTENDS Integers, Sequences, FiniteSets, TLC

(***************************************************************************)
(* Bounds of the model.                                                    *)
(***************************************************************************)
MaxCommit == 3
MaxRuns == 2
WriterBudget == 1
MaxLeftover == 1
MaxFailures == 1

(***************************************************************************)
(* Names used by the configuration and the environment.                    *)
(***************************************************************************)
\* The configurations the script is run with, and how often the operator
\* runs it: a single pair that is synced again and again, and the 2 x 2
\* matrix of the batch, run once.
Configs ==
  {[repositories |-> <<"a">>, target_orgs |-> <<"x">>, runs |-> MaxRuns],
   [repositories |-> <<"a", "b">>, target_orgs |-> <<"x", "y">>, runs |-> 1]}
SourceTags == {"v1", "v2"}

(***************************************************************************)
(* Commit graph: commit 1 is the root and commit c > 1 has the single      *)
(* parent c \div 2, so 2 and 3 are diverged children of 1.  A ref that is  *)
(* missing is written 0, and so is a directory that was never created.     *)
(***************************************************************************)
Commits == 1..MaxCommit

RECURSIVE IsAncestor(_, _)
IsAncestor(a, b) ==
  IF a = b THEN TRUE
  ELSE IF b <= 1 THEN FALSE
  ELSE IsAncestor(a, b \div 2)

VARIABLES
  dry_run,          \* RepoSyncer.dry_run
  repositories,     \* Config.repositories
  target_orgs,      \* Config.target_orgs
  run,              \* number of the invocation of main
  runs,             \* invocations of main the operator makes
  pc,               \* position of the process inside sync_all / sync_repository
  i,                \* sync_all: position of the outer loop (repositories)
  j,                \* sync_all: position of the inner loop (target_orgs)
  results,          \* sync_all's results list
  result,           \* the SyncResult sync_repository is returning
  source_metadata,  \* sync_repository's source_metadata
  target_exists,    \* sync_repository's target_exists
  can_ff,           \* sync_repository's (can_ff, ff_message)
  temp_dir,         \* sync_repository's temp_dir
  mirror,           \* the bare repository inside temp_dir
  workspaces,       \* temporary directories that exist on disk
  leftover,         \* directories whose removal failed
  source,           \* the source repository on the hosting service
  target,           \* the target repository of the pair on the hosting service
  held,             \* the pair whose target repository `target` describes
  writes,           \* writes by other writers to the target still possible
  trace,            \* what the call in progress did and met
  hist,             \* summaries of the finished calls for the held pair
  call,             \* a single call of a method with its arguments
  ret               \* what that call returned, sent and logged

vars == <<dry_run, repositories, target_orgs, run, runs, pc, i, j, results, result,
          source_metadata, target_exists, can_ff, temp_dir, mirror, workspaces,
          leftover, source, target, held, writes, trace, hist, call, ret>>

(***************************************************************************)
(* Values.                                                                 *)
(***************************************************************************)
None == "None"

AbsentTarget == [exists |-> FALSE, tip |-> 0, tags |-> {}]
EmptyTarget == [exists |-> TRUE, tip |-> 0, tags |-> {}]

\* States a target repository can be in when a pair first meets it.
InitialTargets ==
  {AbsentTarget, EmptyTarget}
    \cup {[exists |-> TRUE, tip |-> c, tags |-> {}] : c \in Commits}

NoMirror == [local |-> 0, tags |-> {}, remote |-> FALSE,
             target_ref |-> 0]

NoTrace == [failed |-> {}, did |-> {}, foreign |-> FALSE,
            before |-> AbsentTarget]

ActionGroups == {"actions_permissions", "selected_actions",
                 "workflow_permissions", "workflow_access"}

EmptyMetadata == [present |-> FALSE, default_branch |-> "", topics |-> FALSE,
                  actions |-> {}]

\* The snapshots the pairs are run with: one without topics and without
\* Actions sub-records, one with topics and all four sub-records, and one
\* whose default_branch is empty.
MetadataSnapshots ==
  {[present |-> TRUE, default_branch |-> "main", topics |-> FALSE,
    actions |-> {}],
   [present |-> TRUE, default_branch |-> "main", topics |-> TRUE,
    actions |-> ActionGroups],
   [present |-> TRUE, default_branch |-> "", topics |-> FALSE,
    actions |-> {}]}

SyncResult(repo, org, status, message) ==
  [repo_name |-> repo, target_org |-> org, status |-> status,
   message |-> message]

repo_name == repositories[i]
target_org == target_orgs[j]

NoResult == SyncResult("", "", "", "")

\* No method is being examined on its own.
NoCall == [fn |-> "none"]
NoReturn == [fn |-> "none"]

(***************************************************************************)
(* Initial state: construction of RepoSyncer and load_config in main.      *)
(***************************************************************************)
Init ==
  /\ dry_run \in BOOLEAN
  /\ \E config \in Configs :
       /\ repositories = config.repositories
       /\ target_orgs = config.target_orgs
       /\ runs = config.runs
  /\ run = 1
  /\ pc = "verify_permissions"
  /\ i = 1
  /\ j = 1
  /\ results = <<>>
  /\ result = NoResult
  /\ source_metadata = EmptyMetadata
  /\ target_exists = FALSE
  /\ can_ff = <<FALSE, None>>
  /\ temp_dir = 0
  /\ mirror = NoMirror
  /\ workspaces = {}
  /\ leftover = {}
  /\ source = [tip |-> 2, tags |-> SourceTags]
  /\ target \in InitialTargets
  /\ held = <<repositories[1], target_orgs[1]>>
  /\ writes = IF Len(repositories) * Len(target_orgs) = 1
                THEN WriterBudget ELSE 0
  /\ trace = NoTrace
  /\ hist = <<>>
  /\ call = NoCall
  /\ ret = NoReturn

Locals == <<source_metadata, target_exists, can_ff, temp_dir, mirror>>
Config == <<dry_run, repositories, target_orgs, runs, call, ret>>
Loop == <<i, j, results, run>>
Hosting == <<source, target, held, writes, hist>>

Did(op) == [trace EXCEPT !.did = @ \cup {op}]
Failed(t, op) == [t EXCEPT !.failed = @ \cup {op}]

(***************************************************************************)
(* sync_all: the permission verification that precedes the loop.           *)
(***************************************************************************)
\* How the check of one organization ends: its Actions policy is fine, its
\* policy deserves a warning, its permission endpoint cannot be reached
\* (404, 403: the check returns success False), or the check raises (an
\* answer it cannot read, an error inside its own handler).
OrgAnswers == {"ok", "policy", "unreachable", "raise"}

\* The warnings the check of one organization adds.
VerifyOrg(org, answer) ==
  IF answer \in {"policy", "unreachable"} THEN <<org>> ELSE <<>>

RECURSIVE VerifyTargets(_, _, _)
VerifyTargets(k, orgs, answers) ==
  IF k > Len(orgs) THEN <<>>
  ELSE VerifyOrg(orgs[k], answers[k + 1])
         \o VerifyTargets(k + 1, orgs, answers)

\* verify_workflow_permissions(source_org, target_orgs): the source
\* organization is checked first (answers[1]), then every target
\* organization in turn; it returns {'warnings': [...]} or is left by the
\* exception of a check.  No repository of the configurations has the name
\* of a workflow repository, so source_workflow_repo is None.
verify_workflow_permissions(source_org, orgs, answers) ==
  IF \E k \in 1..Len(answers) : answers[k] = "raise"
    THEN [fn |-> "verify_workflow_permissions", raised |-> TRUE,
          warnings |-> <<>>]
    ELSE [fn |-> "verify_workflow_permissions", raised |-> FALSE,
          warnings |-> VerifyOrg(source_org, answers[1])
                         \o VerifyTargets(1, orgs, answers)]

\* sync_all without the handler around the verification.
AfterVerificationUncaught(verification) ==
  IF verification.raised THEN "crashed" ELSE "sync_all"

\* Where sync_all goes after the verification: warnings are logged, an
\* exception is caught (except Exception) and logged, and the loop over the
\* pairs follows in every case.
AfterVerification(verification) == "sync_all"

\* The prologue of sync_all: the verification runs once, before the loop.
VerifyWorkflowPermissions ==
  /\ pc = "verify_permissions"
  /\ \E answers \in [1..(Len(target_orgs) + 1) -> OrgAnswers] :
       /\ ret' = verify_workflow_permissions("src", target_orgs, answers)
       /\ pc' = AfterVerification(ret')
  /\ UNCHANGED <<dry_run, repositories, target_orgs, runs, call, Loop, Locals,
                 result, workspaces, leftover, Hosting, trace>>

(***************************************************************************)
(* sync_all: the nested loop calls sync_repository for the next pair.      *)
(* The repository the pair addresses is another one than the last pair's   *)
(* unless the pair is the same, so its state is any state a target can be  *)
(* in.                                                                     *)
(***************************************************************************)
StartPair ==
  /\ pc = "sync_all"
  /\ i <= Len(repositories)
  /\ pc' = "get_metadata"
  /\ IF held = <<repo_name, target_org>>
       THEN /\ UNCHANGED <<target, hist>>
            /\ trace' = [NoTrace EXCEPT !.before = target]
       ELSE /\ target' \in InitialTargets
            /\ hist' = <<>>
            /\ trace' = [NoTrace EXCEPT !.before = target']
  /\ held' = <<repo_name, target_org>>
  /\ ret' = NoReturn
  /\ UNCHANGED <<dry_run, repositories, target_orgs, runs, call, Loop, Locals,
                 result, workspaces, leftover, source, writes>>

\* sync_all returns the results once both loops are exhausted.
SyncAllReturn ==
  /\ pc = "sync_all"
  /\ i > Len(repositories)
  /\ pc' = "done"
  /\ UNCHANGED <<Config, Loop, Locals, result, workspaces, leftover, Hosting, trace>>

(***************************************************************************)
(* sync_repository, step by step.                                          *)
(***************************************************************************)
\* A return statement before the try block: nothing to clean up.
ReturnEarly(status, message) ==
  /\ result' = SyncResult(repo_name, target_org, status, message)
  /\ pc' = "returned"

\* A return statement (or a caught exception) inside the try block: the
\* finally clause runs before the result reaches the caller.
ReturnFromTry(status, message) ==
  /\ result' = SyncResult(repo_name, target_org, status, message)
  /\ pc' = "finally"

\* An exception nothing in sync_repository, sync_all or main catches.
Propagate ==
  /\ pc' = "crashed"
  /\ result' = NoResult
  /\ hist' = Append(hist, [status |-> "crashed", clean |-> FALSE,
                           pre |-> FALSE,
                           synced |-> target.exists /\ target.tip = source.tip,
                           made |-> FALSE, foreign |-> trace.foreign])

\* _get_repo_metadata(source_org, repo_name) and the two checks on what it
\* returned.  A GithubException of the repository or topics read yields {};
\* any other exception of these two reads leaves _get_repo_metadata and,
\* the call being outside the try block, sync_repository; the Actions
\* sub-records are those whose reads succeeded.
GetSourceMetadata ==
  /\ pc = "get_metadata"
  /\ \/ /\ source_metadata' = EmptyMetadata
        /\ trace' = Failed(trace, "get_metadata")
        /\ ReturnEarly("error", "Failed to get source metadata")
        /\ UNCHANGED hist
     \/ /\ trace' = Failed(trace, "get_metadata")
        /\ Propagate
        /\ UNCHANGED source_metadata
     \/ \E m \in MetadataSnapshots :
          /\ source_metadata' = m
          /\ UNCHANGED hist
          /\ IF m.default_branch = ""
               THEN /\ trace' = Failed(trace, "no_default_branch")
                    /\ ReturnEarly("error",
                         "Failed to get default branch from source metadata")
               ELSE /\ pc' = "repo_exists"
                    /\ UNCHANGED <<result, trace>>
  /\ UNCHANGED <<Config, Loop, source, target, held, writes, workspaces,
                 leftover, target_exists, can_ff, temp_dir, mirror>>

\* The HTTP status of the lookup of a repository: 200 when it exists, 404
\* when it does not, and 401, 403 (also the rate limit) or 500 when the
\* service refuses or fails to answer.
LookupStatuses(repo) == (IF repo.exists THEN {200} ELSE {404}) \cup {401, 403, 500}

\* _repo_exists with every failure taken for non-existence.
repo_exists_masking(status) == IF status = 200 THEN "True" ELSE "False"

\* _repo_exists(org, repo_name): True when get_repo returns, False when it
\* raises a GithubException with status 404, and the exception is raised
\* again for every other status.
repo_exists(status) ==
  IF status = 200 THEN "True"
  ELSE IF status = 404 THEN "False"
  ELSE "raise"

\* target_exists = self._repo_exists(target_org, repo_name); the call is
\* outside the try block.
RepoExists ==
  /\ pc = "repo_exists"
  /\ \E status \in LookupStatuses(target) :
       IF repo_exists(status) = "raise"
         THEN /\ trace' = Failed(trace, "repo_exists")
              /\ Propagate
              /\ UNCHANGED target_exists
         ELSE /\ target_exists' = (repo_exists(status) = "True")
              /\ pc' = "mkdtemp"
              /\ UNCHANGED <<result, trace, hist>>
  /\ UNCHANGED <<Config, Loop, source, target, held, writes, workspaces,
                 leftover, source_metadata, can_ff, temp_dir, mirror>>

\* tempfile.mkdtemp creates a directory under a name no directory has.
FreshDir == CHOOSE d \in 1..(Cardinality(workspaces) + 1) : d \notin workspaces

Mkdtemp ==
  /\ pc = "mkdtemp"
  /\ \/ /\ temp_dir' = FreshDir
        /\ workspaces' = workspaces \cup {FreshDir}
        /\ trace' = Did("mkdtemp")
        /\ pc' = "mirror_clone"
        /\ UNCHANGED <<result, hist>>
     \/ /\ trace' = Failed(trace, "mkdtemp")
        /\ Propagate
        /\ UNCHANGED <<temp_dir, workspaces>>
  /\ UNCHANGED <<Config, Loop, source, target, held, writes, leftover,
                 source_metadata, target_exists, can_ff, mirror>>

\* The step after the clone with the creation of the target left out.
AfterCloneNoCreate == IF target_exists THEN "can_fast_forward" ELSE "push_mirror"

\* The step of sync_repository that follows a successful clone: the branch
\* on target_exists comes after _mirror_clone.
AfterClone == IF target_exists THEN "can_fast_forward" ELSE "create_repo"

\* _mirror_clone: a failed clone is fatal, a failed tag fetch is not.
MirrorClone ==
  /\ pc = "mirror_clone"
  /\ \/ /\ trace' = Failed(Did("clone"), "clone")
        /\ ReturnFromTry("error", "Failed to mirror clone from source")
        /\ UNCHANGED mirror
     \/ \E tags_ok \in BOOLEAN :
          /\ mirror' = [NoMirror EXCEPT !.local = source.tip,
                          !.tags = IF tags_ok THEN source.tags ELSE {}]
          /\ trace' = IF tags_ok THEN Did("clone")
                      ELSE Failed(Did("clone"), "fetch_tags")
          /\ pc' = AfterClone
          /\ UNCHANGED result
  /\ UNCHANGED <<Config, Loop, Hosting, workspaces, leftover, source_metadata,
                 target_exists, can_ff, temp_dir>>

(***************************************************************************)
(* Metadata write-back.                                                    *)
(***************************************************************************)
\* The module never imports json (its imports are argparse, logging, os,
\* subprocess, sys, tempfile, shutil, typing, dataclasses, pathlib, yaml and
\* github), so the name json is unbound when _format_settings_for_log
\* reaches json.dumps.
JsonImported == FALSE

\* _format_settings_for_log(settings): "{}" for an empty dict; otherwise
\* json.dumps, which raises NameError (not the TypeError or ValueError the
\* function catches) while json is unbound.
FormatSettingsForLog(nonempty) ==
  IF ~nonempty THEN "{}"
  ELSE IF JsonImported THEN "json"
  ELSE "NameError"

\* The setting groups of _set_repo_metadata in the order it applies them.
GroupOrder == <<"repository_settings", "topics", "default_branch",
                "actions_permissions", "selected_actions",
                "workflow_permissions", "workflow_access">>

MetadataCalls == {"get_repo"} \cup {GroupOrder[k] : k \in 1..Len(GroupOrder)}

\* The calls of one write-back that the environment lets fail.
FailureSets == {F \in SUBSET MetadataCalls : Cardinality(F) <= MaxFailures}

\* Whether _set_repo_metadata reaches the group at all: topics only when
\* the snapshot has some, the default branch only when it differs from the
\* target's, selected_actions only inside the actions_permissions branch.
GroupPresent(g, metadata, differs) ==
  CASE g = "repository_settings" -> TRUE
    [] g = "topics" -> metadata.topics
    [] g = "default_branch" -> differs
    [] g = "selected_actions" ->
         {"actions_permissions", "selected_actions"} \subseteq metadata.actions
    [] OTHER -> g \in metadata.actions

\* The failure handlers that log "Attempted: ..." through
\* _format_settings_for_log; the settings they format are never empty.
\* The topics and default-branch handlers format nothing.
LogsAttempted(g) == g \notin {"topics", "default_branch"}

RECURSIVE ApplyGroups(_, _, _, _, _, _)
ApplyGroups(k, metadata, differs, fails, success, failed) ==
  IF k > Len(GroupOrder)
    THEN [raised |-> FALSE, success |-> success, failed |-> failed]
  ELSE LET g == GroupOrder[k] IN
    IF ~GroupPresent(g, metadata, differs)
      THEN ApplyGroups(k + 1, metadata, differs, fails, success, failed)
    ELSE IF g \notin fails
      THEN ApplyGroups(k + 1, metadata, differs, fails,
                       success \cup {g}, failed)
    ELSE IF LogsAttempted(g) /\ FormatSettingsForLog(TRUE) = "NameError"
      THEN [raised |-> TRUE, success |-> success,
            failed |-> failed \cup {g}]
    ELSE ApplyGroups(k + 1, metadata, differs, fails, success,
                     failed \cup {g})

\* _set_repo_metadata without the dry-run return at its top.
SetRepoMetadataIgnoresDryRun(dry, metadata, differs, fails) ==
  IF "get_repo" \in fails
    THEN [returns |-> "False", written |-> {}, failed |-> {"get_repo"},
          sent |-> FALSE]
  ELSE LET r == ApplyGroups(1, metadata, differs, fails, {}, {}) IN
    [returns |-> IF r.raised THEN "NameError"
                 ELSE IF "repository_settings" \in r.success THEN "True"
                 ELSE "False",
     written |-> r.success, failed |-> r.failed, sent |-> TRUE]

\* _set_repo_metadata(org, repo_name, metadata): what it returns ("True",
\* "False") or raises ("NameError"), the groups it wrote and the calls that
\* failed, when the calls in `fails` fail.
SetRepoMetadata(dry, metadata, differs, fails) ==
  IF dry
    THEN [returns |-> "True", written |-> {}, failed |-> {}, sent |-> FALSE]
  ELSE IF "get_repo" \in fails
    THEN [returns |-> "False", written |-> {}, failed |-> {"get_repo"},
          sent |-> FALSE]
  ELSE LET r == ApplyGroups(1, metadata, differs, fails, {}, {}) IN
    [returns |-> IF r.raised THEN "NameError"
                 ELSE IF "repository_settings" \in r.success THEN "True"
                 ELSE "False",
     written |-> r.success, failed |-> r.failed, sent |-> TRUE]

\* The history of a call after a _set_repo_metadata that did `m`.
AfterMetadata(t, m) ==
  [t EXCEPT !.did = @ \cup {"_set_repo_metadata"}
                      \cup (IF m.sent THEN {"metadata_sent"} ELSE {})
                      \cup (IF m.written # {} THEN {"metadata_written"} ELSE {}),
            !.failed = @ \cup m.failed]

\* The repository create_repo would make with auto_init enabled: it has an
\* initial commit that is not part of the source history.
CreatedRepoAutoInit == [exists |-> TRUE, tip |-> MaxCommit, tags |-> {}]

\* The repository create_repo makes: auto_init is False, so it has no
\* commit and no branch.
CreatedRepo == EmptyTarget

\* _create_repo: nothing in dry-run mode; a GithubException of the creation
\* returns False; after the creation _set_repo_metadata runs on the new,
\* still empty repository and whatever it raises that is no GithubException
\* leaves _create_repo.
CreateRepo ==
  /\ pc = "create_repo"
  /\ IF dry_run
       THEN /\ trace' = Did("_create_repo")
            /\ pc' = "push_mirror"
            /\ UNCHANGED <<result, target>>
       ELSE \/ /\ ~target.exists
               /\ target' = CreatedRepo
               /\ \E differs \in BOOLEAN, fails \in FailureSets :
                    LET m == SetRepoMetadata(dry_run, source_metadata,
                                             differs, fails)
                        t == AfterMetadata(
                               [trace EXCEPT !.did =
                                  @ \cup {"_create_repo", "created"}], m)
                    IN /\ trace' = t
                       /\ IF m.returns = "NameError"
                            THEN ReturnFromTry("error",
                                   "Unexpected error: name 'json' is not defined")
                            ELSE /\ pc' = "push_mirror"
                                 /\ UNCHANGED result
            \/ /\ trace' = Failed(Did("_create_repo"), "create_repo")
               /\ ReturnFromTry("error",
                    "Failed to create repository in target org")
               /\ UNCHANGED target
  /\ UNCHANGED <<Config, Loop, workspaces, leftover, source, held, writes, hist,
                 Locals>>

(***************************************************************************)
(* Ancestry check and push.                                                *)
(***************************************************************************)
\* The ancestor query answering for strict ancestors only.
MergeBaseStrict(target_ref, local) ==
  IF target_ref = 0 \/ local = 0 THEN 128
  ELSE IF target_ref # local /\ IsAncestor(target_ref, local) THEN 0
  ELSE 1

\* git merge-base --is-ancestor target/<branch> <branch>: exit code 0 when
\* the first commit is an ancestor of (or equal to) the second, 1 when it
\* is not, 128 when a ref does not resolve.
MergeBaseIsAncestor(target_ref, local) ==
  IF target_ref = 0 \/ local = 0 THEN 128
  ELSE IF IsAncestor(target_ref, local) THEN 0
  ELSE 1

\* AncestryAnswer with every exit code below 128 taken for success.
AncestryAnswerLoose(returncode) ==
  IF returncode < 128 THEN <<TRUE, "Can fast-forward">>
  ELSE <<FALSE, "Failed to check ancestry: <stderr>">>

\* The (can_ff, message) pair _can_fast_forward builds from the exit code.
AncestryAnswer(returncode) ==
  IF returncode = 0 THEN <<TRUE, "Can fast-forward">>
  ELSE IF returncode = 1
    THEN <<FALSE, "Target has diverged from source (cannot fast-forward)">>
  ELSE <<FALSE, "Failed to check ancestry: <stderr>">>

SkippedMessage(ff_message) ==
  CASE ff_message = "Failed to add target remote: <stderr>" ->
         "Skipped: Failed to add target remote: <stderr>"
    [] ff_message = "Failed to fetch from target: <stderr>" ->
         "Skipped: Failed to fetch from target: <stderr>"
    [] ff_message = "Failed to check ancestry: <stderr>" ->
         "Skipped: Failed to check ancestry: <stderr>"
    [] OTHER ->
         "Skipped: Target has diverged from source (cannot fast-forward)"

\* AfterAncestry without the branch on can_ff: the push step always follows.
AfterAncestryAlwaysPush(answer) ==
  /\ pc' = "push_mirror"
  /\ UNCHANGED result

\* What sync_repository does with the answer of _can_fast_forward: push
\* when can_ff is true, return 'skipped' with the message otherwise.
AfterAncestry(answer) ==
  IF answer[1]
    THEN /\ pc' = "push_mirror"
         /\ UNCHANGED result
    ELSE ReturnFromTry("skipped", SkippedMessage(answer[2]))

\* _can_fast_forward followed by the branch on its answer.
CanFastForward ==
  /\ pc = "can_fast_forward"
  /\ \/ /\ can_ff' = <<FALSE, "Failed to add target remote: <stderr>">>
        /\ trace' = Failed(Did("_can_fast_forward"), "remote_add")
        /\ UNCHANGED mirror
     \/ /\ can_ff' = <<FALSE, "Failed to fetch from target: <stderr>">>
        /\ trace' = Failed(Did("_can_fast_forward"), "fetch")
        /\ mirror' = [mirror EXCEPT !.remote = TRUE]
     \/ /\ target.exists
        /\ mirror' = [mirror EXCEPT !.remote = TRUE, !.target_ref = target.tip]
        /\ can_ff' = AncestryAnswer(
                       MergeBaseIsAncestor(target.tip, mirror.local))
        /\ trace' = IF MergeBaseIsAncestor(target.tip, mirror.local) = 128
                      THEN Failed(Did("_can_fast_forward"), "merge_base")
                      ELSE Did("_can_fast_forward")
  /\ AfterAncestry(can_ff')
  /\ UNCHANGED <<Config, Loop, Hosting, workspaces, leftover, source_metadata,
                 target_exists, temp_dir>>

\* The push with --force.
PushForced == TRUE

\* git push <url> <branch>: the command line carries neither --force nor a
\* + refspec.
PushForce == FALSE

\* Whether the remote accepts a push of `local` to its branch.
GitPushAccepted(remote, local, force) ==
  /\ remote.exists
  /\ local # 0
  /\ \/ force
     \/ remote.tip = 0
     \/ IsAncestor(remote.tip, local)

PushFailedMessage ==
  IF target_exists THEN "Failed to push updates to target"
  ELSE "Failed to push to target"

\* _push_mirror: nothing in dry-run mode; a failed branch push (rejected
\* by the remote as no fast-forward, or failing for another reason) is
\* fatal, a failed tag push is not.
PushMirror ==
  /\ pc = "push_mirror"
  /\ IF dry_run
       THEN /\ trace' = Did("_push_mirror")
            /\ pc' = "set_metadata"
            /\ UNCHANGED <<result, target>>
       ELSE \/ /\ GitPushAccepted(target, mirror.local, PushForce)
               /\ \E tags_ok \in BOOLEAN :
                    /\ target' = [target EXCEPT
                                    !.tip = mirror.local,
                                    !.tags = IF tags_ok THEN @ \cup mirror.tags
                                             ELSE @]
                    /\ trace' =
                         LET t == [trace EXCEPT !.did =
                                     @ \cup {"_push_mirror", "git_push", "pushed"}]
                         IN IF tags_ok THEN t ELSE Failed(t, "push_tags")
               /\ pc' = "set_metadata"
               /\ UNCHANGED result
            \/ /\ ~GitPushAccepted(target, mirror.local, PushForce)
               /\ trace' = [trace EXCEPT !.did =
                              @ \cup {"_push_mirror", "git_push", "rejected"}]
               /\ ReturnFromTry("error", PushFailedMessage)
               /\ UNCHANGED target
            \/ /\ trace' = Failed([trace EXCEPT !.did =
                                     @ \cup {"_push_mirror", "git_push"}], "push")
               /\ ReturnFromTry("error", PushFailedMessage)
               /\ UNCHANGED target
  /\ UNCHANGED <<Config, Loop, workspaces, leftover, source, held, writes, hist,
                 Locals>>

\* The final _set_repo_metadata of both branches and the result after it.
\* Its return value is ignored; an exception it raises reaches the except
\* clause of sync_repository.
SetMetadata ==
  /\ pc = "set_metadata"
  /\ \E differs \in BOOLEAN, fails \in FailureSets :
       LET m == SetRepoMetadata(dry_run, source_metadata, differs, fails) IN
         /\ trace' = AfterMetadata(trace, m)
         /\ IF m.returns = "NameError"
              THEN ReturnFromTry("error",
                     "Unexpected error: name 'json' is not defined")
            ELSE IF target_exists
              THEN ReturnFromTry("updated", "Repository updated successfully")
            ELSE ReturnFromTry("created",
                   "Repository created and mirrored successfully")
  /\ UNCHANGED <<Config, Loop, Hosting, workspaces, leftover, Locals>>

(***************************************************************************)
(* Back in sync_all; the environment.                                      *)
(***************************************************************************)
\* What a finished call leaves for the next call for the same pair.
Summary ==
  [status |-> result.status,
   clean |-> trace.failed = {} /\ ~trace.foreign,
   pre |-> \/ ~trace.before.exists
           \/ /\ trace.before.tip # 0
              /\ IsAncestor(trace.before.tip, source.tip),
   synced |-> target.exists /\ target.tip = source.tip,
   made |-> "created" \in trace.did,
   foreign |-> trace.foreign]

\* The nested loop with target_orgs as the outer loop.
LoopStepOrgsOuter(outer, inner) ==
  IF outer < Len(repositories) THEN <<outer + 1, inner>>
  ELSE IF inner < Len(target_orgs) THEN <<1, inner + 1>>
  ELSE <<Len(repositories) + 1, 1>>

\* The positions of the nested loop after the pair at (outer, inner):
\* for repo_name in repositories: for target_org in target_orgs.
LoopStep(outer, inner) ==
  IF inner < Len(target_orgs) THEN <<outer, inner + 1>>
  ELSE <<outer + 1, 1>>

\* sync_repository returns to sync_all: results.append(result) and the
\* step of the nested loop; the locals of the finished call are gone.
ResultAppended ==
  /\ results' = Append(results, [repo_name |-> result.repo_name,
                                 target_org |-> result.target_org,
                                 status |-> result.status])
  /\ i' = LoopStep(i, j)[1]
  /\ j' = LoopStep(i, j)[2]
  /\ hist' = Append(hist, Summary)
  /\ pc' = "sync_all"
  /\ result' = NoResult
  /\ source_metadata' = EmptyMetadata
  /\ target_exists' = FALSE
  /\ can_ff' = <<FALSE, None>>
  /\ temp_dir' = 0
  /\ mirror' = NoMirror
  /\ trace' = NoTrace
  /\ UNCHANGED <<Config, run, source, target, held, writes>>

\* A cleanup that removes nothing.
RmtreeNothing(dirs, dir) == dirs

\* shutil.rmtree(temp_dir) when it succeeds.
Rmtree(dirs, dir) == dirs \ {dir}

\* The finally clause, shutil.rmtree(temp_dir) with a failure only logged,
\* and then the return to sync_all.
Finally ==
  /\ pc = "finally"
  /\ \/ /\ workspaces' = Rmtree(workspaces, temp_dir)
        /\ UNCHANGED leftover
     \/ /\ Cardinality(leftover) < MaxLeftover
        /\ leftover' = leftover \cup {temp_dir}
        /\ UNCHANGED workspaces
  /\ ResultAppended

\* The return to sync_all from a return statement before the try block.
EarlyReturn ==
  /\ pc = "returned"
  /\ ResultAppended
  /\ UNCHANGED <<workspaces, leftover>>

\* The number of results with the given status.
Count(rs, status) ==
  Cardinality({k \in 1..Len(rs) : rs[k].status = status})

\* print_summary(results): the total and the four counts it logs.
print_summary(rs) ==
  [total |-> Len(rs),
   created |-> Count(rs, "created"),
   updated |-> Count(rs, "updated"),
   skipped |-> Count(rs, "skipped"),
   errors |-> Count(rs, "error")]

\* The exit status with skipped pairs counted as errors.
ExitStatusSkippedFails(rs) ==
  IF Count(rs, "error") + Count(rs, "skipped") > 0 THEN 1 ELSE 0

\* main: errors = sum(1 for r in results if r.status == 'error');
\* sys.exit(1 if errors > 0 else 0).
ExitStatus(rs) == IF Count(rs, "error") > 0 THEN 1 ELSE 0

\* main after sync_all has returned: print_summary, then sys.exit.
MainExit ==
  /\ pc = "done"
  /\ ret' = [fn |-> "main", summary |-> print_summary(results),
             status |-> ExitStatus(results)]
  /\ pc' = "exit"
  /\ UNCHANGED <<dry_run, repositories, target_orgs, runs, call, Loop, Locals,
                 result, workspaces, leftover, Hosting, trace>>

\* The operator runs the script again (a new process, the same
\* configuration); the source may have gained commits in the meantime.
Rerun ==
  /\ pc \in {"exit", "crashed"}
  /\ run < runs
  /\ run' = run + 1
  /\ pc' = "verify_permissions"
  /\ i' = 1
  /\ j' = 1
  /\ results' = <<>>
  /\ result' = NoResult
  /\ source_metadata' = EmptyMetadata
  /\ target_exists' = FALSE
  /\ can_ff' = <<FALSE, None>>
  /\ temp_dir' = 0
  /\ mirror' = NoMirror
  /\ trace' = NoTrace
  /\ \E c \in Commits :
       /\ IsAncestor(source.tip, c)
       /\ source' = [source EXCEPT !.tip = c]
  /\ ret' = NoReturn
  /\ UNCHANGED <<dry_run, repositories, target_orgs, runs, call, workspaces,
                 leftover, target, held, writes, hist>>

InCall == pc \in {"get_metadata", "repo_exists", "mkdtemp", "mirror_clone",
                  "create_repo", "can_fast_forward", "push_mirror",
                  "set_metadata", "finally"}

\* Another writer moves the target branch (advancing or rewriting it)
\* while the pair is being synced.
TargetWriter ==
  /\ InCall
  /\ writes > 0
  /\ target.exists
  /\ \E c \in Commits \ {target.tip} :
       target' = [target EXCEPT !.tip = c]
  /\ writes' = writes - 1
  /\ trace' = [trace EXCEPT !.foreign = TRUE]
  /\ UNCHANGED <<Config, Loop, workspaces, leftover, source, held, hist, Locals,
                 result, pc>>

Next ==
  \/ VerifyWorkflowPermissions
  \/ StartPair
  \/ GetSourceMetadata
  \/ RepoExists
  \/ Mkdtemp
  \/ MirrorClone
  \/ CreateRepo
  \/ CanFastForward
  \/ PushMirror
  \/ SetMetadata
  \/ Finally
  \/ EarlyReturn
  \/ SyncAllReturn
  \/ MainExit
  \/ Rerun
  \/ TargetWriter

Spec == Init /\ [][Next]_vars

(***************************************************************************)
(* Single calls.  The methods below are pure functions of their arguments  *)
(* and of the answers of the environment, so each is run on its own from   *)
(* every argument of a bounded set: `call` holds the method name and the   *)
(* arguments, `ret` what the call returned, sent and logged.               *)
(***************************************************************************)
\* A value of the YAML document: its Python type and, for a list, its items.
YamlValue(type, items) == [type |-> type, items |-> items]

YamlField(lists) ==
  {YamlValue(t, <<>>) : t \in {"missing", "NoneType", "str"}}
    \cup {YamlValue("list", l) : l \in lists}

\* The documents load_config is run on: a file that cannot be read or
\* parsed, and mappings whose three fields are missing or of any type.
ConfigDocuments ==
  [readable : BOOLEAN,
   source_org : {YamlValue("missing", <<>>), YamlValue("str", <<>>)},
   target_orgs : YamlField({<<>>, <<"x">>, <<"x", "y">>}),
   repositories : YamlField({<<>>, <<"a">>, <<"a", "b">>})]

\* load_config(config_path): sys.exit(1) when the file cannot be loaded,
\* when one of source_org, target_orgs, repositories is not a key of the
\* document, when target_orgs is no list, when repositories is no list;
\* otherwise the Config built from the three fields as they are.
load_config(data) ==
  IF ~data.readable
    THEN [fn |-> "load_config", outcome |-> "sys.exit(1)",
          message |-> "Failed to load config file"]
  ELSE IF \E f \in {"source_org", "target_orgs", "repositories"} :
            data[f].type = "missing"
    THEN [fn |-> "load_config", outcome |-> "sys.exit(1)",
          message |-> "Missing required field in config"]
  ELSE IF data.target_orgs.type # "list"
    THEN [fn |-> "load_config", outcome |-> "sys.exit(1)",
          message |-> "'target_orgs' must be a list"]
  ELSE IF data.repositories.type # "list"
    THEN [fn |-> "load_config", outcome |-> "sys.exit(1)",
          message |-> "'repositories' must be a list"]
  ELSE [fn |-> "load_config", outcome |-> "Config",
        message |-> "Config loaded"]

\* main: config = syncer.load_config(args.config), and with a Config
\* results = syncer.sync_all(config).
LoadConfig ==
  /\ pc = "call"
  /\ call.fn = "load_config"
  /\ ret' = load_config(call.data)
  /\ IF ret'.outcome = "Config"
       THEN /\ repositories' = call.data.repositories.items
            /\ target_orgs' = call.data.target_orgs.items
            /\ pc' = "sync_all"
       ELSE /\ pc' = "exit"
            /\ UNCHANGED <<repositories, target_orgs>>
  /\ UNCHANGED <<dry_run, runs, call, Loop, Locals, result, workspaces,
                 leftover, Hosting, trace>>

\* Access tokens (args.token or GITHUB_TOKEN).
Tokens == {"ghp_A", "ghp_B"}

\* A string is the sequence of its pieces; a URL starts with its scheme.
SourceUrl == <<"https://", "github.com/src/a.git">>
TargetUrl == <<"https://", "github.com/x/a.git">>

\* _get_auth_url(repo_url): an ssh URL is rewritten to https, then
\* 'https://' is replaced by 'https://<token>@'.
get_auth_url(repo_url, token) ==
  LET url == IF repo_url[1] = "git@github.com:"
               THEN <<"https://", "github.com/">> \o Tail(repo_url)
               ELSE repo_url
  IN IF url[1] = "https://"
       THEN <<"https://", token, "@">> \o Tail(url)
       ELSE url

\* The git command lines of _mirror_clone, _push_mirror and
\* _can_fast_forward, by the place that builds them.
GitCommandNames == {"clone", "fetch_tags", "push_branch", "push_tags",
                    "remote_add", "fetch_target", "merge_base"}

GitCommand(name, token) ==
  CASE name = "clone" ->
         <<"git", "clone", "--bare", "--single-branch", "--branch", "main">>
           \o get_auth_url(SourceUrl, token) \o <<"<temp_dir>/a.git">>
    [] name = "fetch_tags" ->
         <<"git", "fetch", "origin", "refs/tags/*:refs/tags/*">>
    [] name = "push_branch" ->
         <<"git", "push">> \o get_auth_url(TargetUrl, token) \o <<"main">>
    [] name = "push_tags" ->
         <<"git", "push">> \o get_auth_url(TargetUrl, token)
           \o <<"refs/tags/*:refs/tags/*">>
    [] name = "remote_add" ->
         <<"git", "remote", "add", "target">> \o get_auth_url(TargetUrl, token)
    [] name = "fetch_target" -> <<"git", "fetch", "target">>
    [] OTHER ->
         <<"git", "merge-base", "--is-ancestor", "target/main", "main">>

\* The logger passes a DEBUG record only in verbose mode (the level of the
\* logger and of its handler is DEBUG if verbose, INFO otherwise).
LoggerDebug(verbose, line) == IF verbose THEN <<line>> ELSE <<>>

\* _run_command(cmd): what it writes to the log around subprocess.run.
run_command(cmd, verbose, returncode) ==
  [fn |-> "_run_command",
   returncode |-> returncode,
   log |-> LoggerDebug(verbose, <<"Running: ">> \o cmd)
             \o (IF returncode # 0
                   THEN LoggerDebug(verbose, <<"Command failed with code">>)
                          \o LoggerDebug(verbose, <<"stderr: ", "<stderr>">>)
                   ELSE <<>>)]

\* One git command run through _run_command.
RunCommand ==
  /\ pc = "call"
  /\ call.fn = "_run_command"
  /\ ret' = run_command(GitCommand(call.command, call.token), call.verbose,
                        call.returncode)
  /\ pc' = "called"
  /\ UNCHANGED <<dry_run, repositories, target_orgs, runs, call, Loop, Locals,
                 result, workspaces, leftover, Hosting, trace>>

\* The keys of edit_params, by the test _set_repo_metadata puts them
\* under: none, `key in metadata`, `metadata.get(key) is not None`.
AlwaysSent == {"description", "homepage", "private"}

SentIfKey == {"has_issues", "has_wiki", "has_projects", "has_discussions",
              "allow_squash_merge", "allow_merge_commit",
              "allow_rebase_merge", "allow_auto_merge",
              "delete_branch_on_merge", "is_template", "archived"}

SentIfNotNone == {"allow_update_branch", "squash_merge_commit_title",
                  "squash_merge_commit_message", "merge_commit_title",
                  "merge_commit_message", "allow_forking",
                  "web_commit_signoff_required"}

\* The keys of the record _get_repo_metadata builds: the dict literal has
\* every key, with the value None where the repository has no value.
SnapshotKeys == AlwaysSent \cup SentIfKey \cup SentIfNotNone
                  \cup {"topics", "default_branch"}

\* The snapshot fields that can hold None (description and homepage are
\* read with `or ''`).
NullableFields == (SentIfKey \cup SentIfNotNone)

\* The keys of the request repo.edit(**edit_params) for a snapshot with the
\* keys `keys` whose fields in `absent` hold None.
EditParams(keys, absent) ==
  AlwaysSent
    \cup {f \in SentIfKey : f \in keys}
    \cup {f \in SentIfNotNone : f \in keys /\ f \notin absent}

\* The default-branch step with the verification left out.
DefaultBranchUnverified(current_default, new_default, branches, fails) ==
  IF current_default = new_default THEN <<>>
  ELSE <<"edit_default_branch">>

\* The requests of the default-branch step: nothing when the target's
\* default branch is the new one already; otherwise repo.get_branch, and
\* repo.edit(default_branch=...) only when get_branch returned.
DefaultBranchRequests(current_default, new_default, branches, fails) ==
  IF current_default = new_default THEN <<>>
  ELSE IF new_default \notin branches \/ "get_branch" \in fails
    THEN <<"get_branch">>
  ELSE <<"get_branch", "edit_default_branch">>

\* The snapshots a single write-back is run with: with or without topics,
\* with any of the Actions sub-records _get_repo_metadata can store (the
\* selected_actions read is nested under the permissions read).
WriteBackSnapshots ==
  {[present |-> TRUE, default_branch |-> "main", topics |-> t, actions |-> S] :
     t \in BOOLEAN,
     S \in {A \in SUBSET ActionGroups :
              "selected_actions" \in A => "actions_permissions" \in A}}

\* The None-valued fields of those snapshots: none or one.
AbsentSets == {{}} \cup {{f} : f \in NullableFields}

\* The target repository as the write-back finds it.
TargetSettings == [default_branch : {"main", "dev"},
                   branches : {{"dev"}, {"main", "dev"}},
                   topics : {{}, {"legacy"}}]

\* metadata['topics'] of a snapshot: the list repo.get_topics() returned.
SnapshotTopics(metadata) == IF metadata.topics THEN {"ci"} ELSE {}

\* repo.replace_topics(topics): the repository's topics become `topics`.
replace_topics(current, topics) == topics

\* The calls of one write-back that fail.
WriteBackFailures ==
  {F \in SUBSET (MetadataCalls \cup {"get_branch"}) :
     Cardinality(F) <= MaxFailures}

\* _set_repo_metadata(org, repo_name, metadata) as a whole: what it
\* returns or raises, the setting groups it recorded as success and as
\* failed, the keys of the edit request and the default-branch requests.
set_repo_metadata(dry, metadata, absent, settings, fails) ==
  LET differs == settings.default_branch # metadata.default_branch
      requests == DefaultBranchRequests(settings.default_branch,
                    metadata.default_branch, settings.branches, fails)
      edit_sent == \E k \in 1..Len(requests) :
                     requests[k] = "edit_default_branch"
      m == SetRepoMetadata(dry, metadata, differs,
             (fails \cap MetadataCalls)
               \cup (IF differs /\ ~edit_sent THEN {"default_branch"} ELSE {}))
      reached == "default_branch" \in m.written \cup m.failed
  IN [fn |-> "_set_repo_metadata",
      returns |-> m.returns,
      success |-> m.written,
      failed |-> m.failed,
      edit_params |-> IF "repository_settings" \in m.written \cup m.failed
                        THEN EditParams(SnapshotKeys, absent) ELSE {},
      topics |-> IF "topics" \in m.written
                   THEN replace_topics(settings.topics,
                                       SnapshotTopics(metadata))
                   ELSE settings.topics,
      requests |-> IF reached THEN requests ELSE <<>>]

\* One call of _set_repo_metadata.
SetRepoMetadataCall ==
  /\ pc = "call"
  /\ call.fn = "_set_repo_metadata"
  /\ ret' = set_repo_metadata(dry_run, call.metadata, call.absent,
                              call.settings, call.fails)
  /\ pc' = "called"
  /\ UNCHANGED <<dry_run, repositories, target_orgs, runs, call, Loop, Locals,
                 result, workspaces, leftover, Hosting, trace>>

\* How a call to the hosting service ends.
Answers == {"ok", "GithubException", "Exception"}

\* The workflow-access read with the endpoint asked for every repository.
get_repo_workflow_access_level_always(private, readable) ==
  IF ~readable
    THEN [success |-> FALSE, access_level |-> None, requested |-> TRUE]
    ELSE [success |-> TRUE, access_level |-> "organization",
          requested |-> TRUE]

\* _get_repo_workflow_access_level(org, repo_name): for a repository that
\* is not private it returns (True, {'access_level': 'public'}) without
\* asking the access endpoint; for a private one it returns what the
\* endpoint answers; (False, None) when a request fails.
get_repo_workflow_access_level(private, readable) ==
  IF ~readable
    THEN [success |-> FALSE, access_level |-> None, requested |-> private]
  ELSE IF ~private
    THEN [success |-> TRUE, access_level |-> "public", requested |-> FALSE]
  ELSE [success |-> TRUE, access_level |-> "organization",
        requested |-> TRUE]

\* _get_repo_metadata(org, repo_name): get_repo and get_topics are inside
\* one try block that catches GithubException only and returns {}; each
\* Actions read catches every exception and only leaves its sub-record out;
\* selected_actions is read only when allowed_actions is 'selected'.
get_repo_metadata(repo) ==
  IF repo.get_repo = "Exception" THEN
    [fn |-> "_get_repo_metadata", outcome |-> "raise",
     metadata |-> EmptyMetadata]
  ELSE IF repo.get_repo = "GithubException" THEN
    [fn |-> "_get_repo_metadata", outcome |-> "return",
     metadata |-> EmptyMetadata]
  ELSE IF repo.get_topics = "Exception" THEN
    [fn |-> "_get_repo_metadata", outcome |-> "raise",
     metadata |-> EmptyMetadata]
  ELSE IF repo.get_topics = "GithubException" THEN
    [fn |-> "_get_repo_metadata", outcome |-> "return",
     metadata |-> EmptyMetadata]
  ELSE
    [fn |-> "_get_repo_metadata", outcome |-> "return",
     workflow_access |->
       get_repo_workflow_access_level(repo.private,
                                      "workflow_access" \notin repo.unreadable),
     metadata |->
       [present |-> TRUE,
        default_branch |-> repo.default_branch,
        topics |-> repo.has_topics,
        actions |->
          {g \in ActionGroups \ repo.unreadable :
             g = "selected_actions" =>
               (repo.selected /\ "actions_permissions" \notin repo.unreadable)}]]

\* The source repositories a single metadata read is run on, with the
\* answers of the hosting service to each of its calls.
ReadableRepos ==
  [get_repo : Answers, get_topics : Answers, has_topics : BOOLEAN,
   default_branch : {"main", ""}, selected : BOOLEAN, private : BOOLEAN,
   unreadable : SUBSET ActionGroups]

\* One call of _get_repo_metadata.
GetRepoMetadataCall ==
  /\ pc = "call"
  /\ call.fn = "_get_repo_metadata"
  /\ ret' = get_repo_metadata(call.repo)
  /\ pc' = "called"
  /\ UNCHANGED <<dry_run, repositories, target_orgs, runs, call, Loop, Locals,
                 result, workspaces, leftover, Hosting, trace>>


\* The exit codes of a git command: success, failure, fatal error.
ReturnCodes == {0, 1, 128}

\* _mirror_clone: the bare single-branch clone, whose failure returns
\* False; then the tag fetch, whose failure is only logged as a warning.
mirror_clone(clone_rc, fetch_rc) ==
  IF clone_rc # 0
    THEN [fn |-> "_mirror_clone", returns |-> FALSE, commands |-> <<"clone">>]
    ELSE [fn |-> "_mirror_clone", returns |-> TRUE,
          commands |-> <<"clone", "fetch_tags">>]

\* One call of _mirror_clone.
MirrorCloneCall ==
  /\ pc = "call"
  /\ call.fn = "_mirror_clone"
  /\ ret' = mirror_clone(call.clone_rc, call.fetch_rc)
  /\ pc' = "called"
  /\ UNCHANGED <<dry_run, repositories, target_orgs, runs, call, Loop, Locals,
                 result, workspaces, leftover, Hosting, trace>>

\* _push_mirror with a failed tag push taken for a failure of the push.
push_mirror_tags_fatal(dry, branch_rc, tags_rc) ==
  IF dry
    THEN [fn |-> "_push_mirror", returns |-> TRUE, commands |-> <<>>]
  ELSE IF branch_rc # 0
    THEN [fn |-> "_push_mirror", returns |-> FALSE,
          commands |-> <<"push_branch">>]
  ELSE [fn |-> "_push_mirror", returns |-> (tags_rc = 0),
        commands |-> <<"push_branch", "push_tags">>]

\* _push_mirror: nothing is run in dry-run mode; the branch push, whose
\* failure returns False; then the tag push, whose failure is only logged
\* as a warning.
push_mirror(dry, branch_rc, tags_rc) ==
  IF dry
    THEN [fn |-> "_push_mirror", returns |-> TRUE, commands |-> <<>>]
  ELSE IF branch_rc # 0
    THEN [fn |-> "_push_mirror", returns |-> FALSE,
          commands |-> <<"push_branch">>]
  ELSE [fn |-> "_push_mirror", returns |-> TRUE,
        commands |-> <<"push_branch", "push_tags">>]

\* One call of _push_mirror.
PushMirrorCall ==
  /\ pc = "call"
  /\ call.fn = "_push_mirror"
  /\ ret' = push_mirror(dry_run, call.branch_rc, call.tags_rc)
  /\ pc' = "called"
  /\ UNCHANGED <<dry_run, repositories, target_orgs, runs, call, Loop, Locals,
                 result, workspaces, leftover, Hosting, trace>>

\* The state before main has loaded a configuration, with one call to run.
InitCalls ==
  /\ dry_run \in BOOLEAN
  /\ repositories = <<>>
  /\ target_orgs = <<>>
  /\ runs = 1
  /\ run = 1
  /\ pc = "call"
  /\ i = 1
  /\ j = 1
  /\ results = <<>>
  /\ result = NoResult
  /\ source_metadata = EmptyMetadata
  /\ target_exists = FALSE
  /\ can_ff = <<FALSE, None>>
  /\ temp_dir = 0
  /\ mirror = NoMirror
  /\ workspaces = {}
  /\ leftover = {}
  /\ source = [tip |-> 2, tags |-> SourceTags]
  /\ target = AbsentTarget
  /\ held = <<"", "">>
  /\ writes = 0
  /\ trace = NoTrace
  /\ hist = <<>>
  /\ ret = NoReturn
  /\ \/ \E data \in ConfigDocuments :
          call = [fn |-> "load_config", data |-> data]
     \/ \E name \in GitCommandNames, token \in Tokens, verbose \in BOOLEAN,
           returncode \in {0, 1, 128} :
          call = [fn |-> "_run_command", command |-> name, token |-> token,
                  verbose |-> verbose, returncode |-> returncode]
     \/ \E metadata \in WriteBackSnapshots, absent \in AbsentSets,
           settings \in TargetSettings, fails \in WriteBackFailures :
          call = [fn |-> "_set_repo_metadata", metadata |-> metadata,
                  absent |-> absent, settings |-> settings, fails |-> fails]
     \/ \E repo \in ReadableRepos :
          call = [fn |-> "_get_repo_metadata", repo |-> repo]
     \/ \E clone_rc \in ReturnCodes, fetch_rc \in ReturnCodes :
          call = [fn |-> "_mirror_clone", clone_rc |-> clone_rc,
                  fetch_rc |-> fetch_rc]
     \/ \E branch_rc \in ReturnCodes, tags_rc \in ReturnCodes :
          call = [fn |-> "_push_mirror", branch_rc |-> branch_rc,
                  tags_rc |-> tags_rc]

NextCalls ==
  \/ LoadConfig
  \/ RunCommand
  \/ SetRepoMetadataCall
  \/ GetRepoMetadataCall
  \/ MirrorCloneCall
  \/ PushMirrorCall

SpecCalls == InitCalls /\ [][NextCalls]_vars

(***************************************************************************)
(* Properties.                                                             *)
(***************************************************************************)
\* The ancestry query as the mirror workspace sees it: the target branch
\* was fetched and its tip is an ancestor of (or equal to) the cloned tip.
WsReachable ==
  /\ mirror.target_ref # 0
  /\ IsAncestor(mirror.target_ref, mirror.local)

\* The call has decided what to do with an existing target.
Decided == pc = "finally" /\ "_can_fast_forward" \in trace.did

\* C1: for an existing target sync_repository enters its push step exactly
\* when the fetched target tip is reachable from the cloned source tip
\* (outside dry-run mode the step runs git push, in dry-run mode it only
\* logs), and no git push is run against an existing target in any other
\* case (failed clone, remote-add or fetch, missing target ref, diverged
\* target).
C1_PushIffReachable ==
  target_exists =>
    /\ (pc \in {"push_mirror", "set_metadata"}
          \/ {"_push_mirror", "git_push"} \cap trace.did # {}) => WsReachable
    /\ Decided => /\ "_push_mirror" \in trace.did <=> WsReachable
                  /\ ~dry_run => ("git_push" \in trace.did <=> WsReachable)

C1_Witness ==
  /\ Decided
  /\ target_exists
  /\ "pushed" \in trace.did
  /\ mirror.target_ref # mirror.local
  /\ target.tip = mirror.local

\* Writes of the call in progress that reach the target.
TargetWrites == {"created", "git_push", "pushed", "metadata_sent",
                 "metadata_written"}

\* The target the call met had a branch tip that is no ancestor of the
\* source tip.
MetDiverged ==
  /\ trace.before.exists
  /\ trace.before.tip # 0
  /\ ~IsAncestor(trace.before.tip, source.tip)

\* C2: a call for an existing target whose tip is not an ancestor of the
\* source tip returns 'skipped' (whenever it gets as far as the ancestry
\* check, and so whenever no external operation fails), neither
\* _push_mirror nor _set_repo_metadata is executed, nothing is written to
\* the target, and unless another writer moved it the target is what it
\* was before the call.
C2_DivergedSkipped ==
  /\ (Decided /\ (~WsReachable \/ (MetDiverged /\ ~trace.foreign))) =>
       /\ result.status = "skipped"
       /\ {"_push_mirror", "_set_repo_metadata"} \cap trace.did = {}
       /\ TargetWrites \cap trace.did = {}
       /\ ~trace.foreign => target = trace.before
  /\ (pc \in {"finally", "returned"} /\ MetDiverged /\ ~trace.foreign) =>
       /\ trace.failed = {} => result.status = "skipped"
       /\ {"_push_mirror", "_set_repo_metadata"} \cap trace.did = {}
       /\ TargetWrites \cap trace.did = {}
       /\ target = trace.before

C2_Witness ==
  /\ Decided
  /\ MetDiverged
  /\ ~trace.foreign
  /\ mirror.target_ref = trace.before.tip
  /\ result.status = "skipped"

\* The Actions sub-groups of the metadata write-back.
ActionsSubGroups == ActionGroups

\* C3: when an Actions sub-group (or another settings sub-group) of the
\* write-back fails while the base repository edit and the mirror push
\* succeeded, the result of the pair is still 'updated' or 'created'.
C3_SubGroupFailureKeepsStatus ==
  (/\ pc = "finally"
   /\ "pushed" \in trace.did
   /\ "metadata_written" \in trace.did
   /\ "repository_settings" \notin trace.failed
   /\ trace.failed \cap (ActionsSubGroups \cup {"topics", "default_branch"})
        # {})
    => result.status \in {"updated", "created"}

\* C4: no failure inside a pair takes sync_all down: the process is never
\* left by an exception of sync_repository.
C4_BatchNeverAborts == pc # "crashed"

\* The pair at position k of the enumeration with repositories as the
\* outer loop and target_orgs as the inner loop.
PairAt(k) ==
  [repo_name |-> repositories[((k - 1) \div Len(target_orgs)) + 1],
   target_org |-> target_orgs[((k - 1) % Len(target_orgs)) + 1]]

\* C5: the k-th result belongs to the k-th pair of the enumeration with
\* repositories outermost, and the list sync_all returns has exactly
\* len(repositories) * len(target_orgs) entries.
C5_ResultsInMatrixOrder ==
  /\ \A k \in 1..Len(results) :
       /\ results[k].repo_name = PairAt(k).repo_name
       /\ results[k].target_org = PairAt(k).target_org
  /\ pc = "done" =>
       Len(results) = Len(repositories) * Len(target_orgs)

C5_Witness ==
  /\ pc = "done"
  /\ Len(results) > Len(repositories)
  /\ Len(results) > Len(target_orgs)
  /\ results[2].repo_name = results[1].repo_name
  /\ results[2].target_org # results[1].target_org

\* C6: a tool failure inside the ancestry check (remote-add, fetch, an
\* ancestor query that ends with another code than 0 or 1) gives the pair
\* the status 'error', an explicit negative answer gives 'skipped'.
C6_ToolFailureIsError ==
  Decided =>
    /\ (trace.failed \cap {"remote_add", "fetch", "merge_base"} # {}
          => result.status = "error")
    /\ ((mirror.target_ref # 0 /\ ~WsReachable)
          => result.status = "skipped")

\* The first n calls for the held pair met no failing external operation
\* and no other writer, and the first of them met a target that did not
\* exist or whose tip was an ancestor of the source tip.
CleanRuns(n) ==
  /\ n <= Len(hist)
  /\ hist[1].pre
  /\ \A k \in 1..n : hist[k].clean

RunsSynced(n) ==
  \A k \in 1..n :
    /\ hist[k].status \in {"created", "updated"}
    /\ hist[k].synced

\* C7 as stated: syncing a pair whose target is absent or behind the
\* source again and again, with no external failure, gives 'created' or
\* 'updated' every time and leaves the target tip at the source tip.
C7_AsStated == \A n \in 1..MaxRuns : CleanRuns(n) => RunsSynced(n)

\* C7, amended: the same outside dry-run mode.
C7_RepeatedSyncConverges ==
  ~dry_run => \A n \in 1..MaxRuns : CleanRuns(n) => RunsSynced(n)

C7_Witness ==
  /\ ~dry_run
  /\ Len(hist) >= 2
  /\ CleanRuns(2)
  /\ hist[1].status = "created"
  /\ hist[2].status = "updated"

\* The call in progress started without a target repository and is about
\* to return without having met a failing operation or another writer.
CleanFirstSync ==
  /\ pc = "finally"
  /\ ~trace.before.exists
  /\ trace.failed = {}
  /\ ~trace.foreign

TargetMirrorsSource ==
  /\ target.exists
  /\ target.tip = source.tip
  /\ source.tags \subseteq target.tags

\* C8 as stated: a first sync without failures returns 'created' and
\* leaves a target repository whose branch tip is the source tip and that
\* has every tag of the source.
C8_AsStated ==
  CleanFirstSync => (result.status = "created" /\ TargetMirrorsSource)

\* C8, amended: the same outside dry-run mode.
C8_FirstSyncCreatesMirror ==
  (~dry_run /\ CleanFirstSync) =>
    (result.status = "created" /\ TargetMirrorsSource)

C8_Witness ==
  /\ ~dry_run
  /\ CleanFirstSync
  /\ result.status = "created"
  /\ target.tags = SourceTags

\* C9: a push of sync_repository never discards a commit of the target:
\* every commit reachable from the target tip before the push is reachable
\* from it after the push, and no tag is lost, also when another writer
\* moved the target between the ancestry check and the push.
C9_PushKeepsTargetHistory ==
  [][(pc = "push_mirror" /\ pc' # "push_mirror") =>
       /\ \A c \in Commits :
            (target.tip # 0 /\ IsAncestor(c, target.tip))
              => IsAncestor(c, target'.tip)
       /\ target.tags \subseteq target'.tags]_vars

\* Another writer rewrote the target after the ancestry check had allowed
\* the push, and the push was run.
C9_Witness ==
  /\ pc = "finally"
  /\ trace.foreign
  /\ can_ff[1]
  /\ "rejected" \in trace.did
  /\ mirror.target_ref # target.tip
  /\ ~IsAncestor(target.tip, mirror.local)

\* Positions of sync_repository at which its workspace is in use.
InTry == pc \in {"mirror_clone", "create_repo", "can_fast_forward",
                 "push_mirror", "set_metadata", "finally"}

\* C10 as stated: every call creates a workspace, none survives the
\* return, and at most one exists at any moment.
C10_AsStated ==
  /\ pc \in {"returned", "finally"} => "mkdtemp" \in trace.did
  /\ pc \in {"sync_all", "done"} => workspaces = {}
  /\ Cardinality(workspaces) <= 1

\* C10, amended: a call has a workspace exactly from the mkdtemp that
\* follows the target lookup until its finally clause (calls that return
\* before that, or that the lookup aborts, never create one); the
\* workspace is a fresh directory, not one an earlier pair left behind;
\* every return path removes it, so that the only directories that outlive
\* a call are those whose removal failed; and besides those at most one
\* workspace exists.
C10_WorkspaceLifecycle ==
  /\ InTry <=> temp_dir # 0
  /\ InTry => /\ "mkdtemp" \in trace.did
              /\ temp_dir \in workspaces
              /\ temp_dir \notin leftover
              /\ workspaces = leftover \cup {temp_dir}
  /\ ~InTry => workspaces = leftover
  /\ Cardinality(workspaces \ leftover) <= 1

C10_Witness ==
  /\ pc = "sync_all"
  /\ Len(results) >= 2
  /\ results[1].status = "skipped"
  /\ results[2].status = "error"
  /\ workspaces = {}

\* C11 as stated: for a target that does not exist the repository is
\* created before the source is cloned, so no clone has been attempted
\* while _create_repo has not run, and none after a failed creation.
C11_AsStated ==
  (InTry /\ ~target_exists /\ "clone" \in trace.did) =>
    /\ "_create_repo" \in trace.did
    /\ "create_repo" \notin trace.failed

\* C11, amended: for a target that does not exist the steps run in the
\* order clone, creation (with its own metadata write-back), push, final
\* metadata write-back.  The creation is attempted only after a successful
\* clone, the push only after a successful creation, the final write-back
\* only after the push step; a failed clone ends the pair with 'error'
\* before any creation, a failed creation ends it with 'error' before any
\* push.
C11_CloneThenCreate ==
  (InTry /\ ~target_exists) =>
    /\ pc = "create_repo" => "clone" \in trace.did
    /\ "_create_repo" \in trace.did =>
         "clone" \in trace.did /\ "clone" \notin trace.failed
    /\ (pc = "push_mirror" \/ "_push_mirror" \in trace.did) =>
         /\ "_create_repo" \in trace.did
         /\ "create_repo" \notin trace.failed
    /\ pc = "set_metadata" => "_push_mirror" \in trace.did
    /\ "clone" \in trace.failed =>
         /\ pc = "finally"
         /\ result.status = "error"
         /\ {"_create_repo", "_push_mirror"} \cap trace.did = {}
    /\ "create_repo" \in trace.failed =>
         /\ pc = "finally"
         /\ result.status = "error"
         /\ "clone" \in trace.did
         /\ "_push_mirror" \notin trace.did

C11_Witness ==
  /\ pc = "finally"
  /\ ~target_exists
  /\ ~dry_run
  /\ "create_repo" \in trace.failed
  /\ "clone" \in trace.did
  /\ result.status = "error"

\* The document handed to load_config lacks a usable list in one of the
\* two fields: the field is missing, is no list, or is an empty list.
UnusableLists ==
  \E f \in {"target_orgs", "repositories"} :
    call.data[f].type # "list" \/ call.data[f].items = <<>>

\* C12: load_config ends the process whenever repositories or target_orgs
\* is an empty list or no list, so sync_all is only ever entered with both
\* sequences non-empty.
C12_LoadRejectsEmpty ==
  (call.fn = "load_config" /\ pc # "call") =>
    /\ UnusableLists => (pc = "exit" /\ ret.outcome = "sys.exit(1)")
    /\ pc = "sync_all" => (repositories # <<>> /\ target_orgs # <<>>)

\* The pieces of the lines a call wrote to the log.
Logged == UNION {{ret.log[k][n] : n \in 1..Len(ret.log[k])} :
                   k \in 1..Len(ret.log)}

\* C13: whatever git command _run_command runs, in normal and in verbose
\* mode, the lines it logs do not contain the access token.
C13_TokenNeverLogged ==
  (call.fn = "_run_command" /\ pc = "called") => call.token \notin Logged

\* C14: once the push has succeeded, no combination of failures inside the
\* final _set_repo_metadata (target lookup, basic edit, topics, default
\* branch, Actions sub-settings) keeps the pair from ending 'created' or
\* 'updated'.
C14_WriteBackNeverFailsPair ==
  (pc = "finally" /\ "pushed" \in trace.did) =>
    result.status = (IF target_exists THEN "updated" ELSE "created")

\* A call of _set_repo_metadata outside dry-run mode has ended (returned
\* or raised) after its target lookup succeeded.
WriteBackDone ==
  /\ call.fn = "_set_repo_metadata"
  /\ pc = "called"
  /\ ~dry_run
  /\ "get_repo" \notin call.fails

\* The setting groups the metadata of the call asks for.
GroupsAsked ==
  {GroupOrder[k] : k \in {n \in 1..Len(GroupOrder) :
     GroupPresent(GroupOrder[n], call.metadata,
                  call.settings.default_branch # call.metadata.default_branch)}}

\* C15: every setting group present in the metadata is attempted whether
\* or not an earlier group failed, and is recorded as exactly one of
\* success and failed.
C15_SubGroupsIndependent ==
  WriteBackDone =>
    /\ ret.success \cup ret.failed = GroupsAsked
    /\ ret.success \cap ret.failed = {}

\* The optional fields of C17: the merge-policy flags, the commit-message
\* format fields, allow_forking, is_template, archived and
\* web_commit_signoff_required.
OptionalFields ==
  {"allow_squash_merge", "allow_merge_commit", "allow_rebase_merge",
   "allow_auto_merge", "delete_branch_on_merge", "allow_update_branch",
   "squash_merge_commit_title", "squash_merge_commit_message",
   "merge_commit_title", "merge_commit_message", "allow_forking",
   "is_template", "archived", "web_commit_signoff_required"}

\* C17: an optional field whose value is None in the source snapshot is
\* not a key of the edit request sent to the target.
C17_AbsentFieldsOmitted ==
  (WriteBackDone /\ ret.edit_params # {}) =>
    (call.absent \cap OptionalFields) \cap ret.edit_params = {}

\* C18: repo.edit(default_branch=...) is sent only when the new default
\* branch differs from the target's current one and repo.get_branch has
\* returned for it before, which it does only for a branch of the target;
\* a switch to a branch the target does not have is never sent.
C18_DefaultBranchVerified ==
  (call.fn = "_set_repo_metadata" /\ pc = "called") =>
    \A k \in 1..Len(ret.requests) :
      ret.requests[k] = "edit_default_branch" =>
        /\ call.settings.default_branch # call.metadata.default_branch
        /\ call.metadata.default_branch \in call.settings.branches
        /\ k > 1
        /\ ret.requests[k - 1] = "get_branch"
        /\ "get_branch" \notin call.fails
        /\ ~dry_run

C18_Witness ==
  /\ call.fn = "_set_repo_metadata"
  /\ pc = "called"
  /\ ret.requests = <<"get_branch", "edit_default_branch">>
  /\ "default_branch" \in ret.success
  /\ call.settings.default_branch = "dev"

\* C19: outside dry-run mode _set_repo_metadata returns True exactly when
\* the basic repository-settings edit succeeded, whatever happened to the
\* topics, default-branch and Actions groups.
C19_SuccessIsBasicEdit ==
  (call.fn = "_set_repo_metadata" /\ pc = "called" /\ ~dry_run) =>
    /\ ret.returns \in {"True", "False"}
    /\ ret.returns = "True" <=> "repository_settings" \in ret.success

\* C16: when the get-repository call succeeds, a failure of the topics
\* call or of an Actions read only leaves that sub-field out:
\* _get_repo_metadata still returns a non-empty record with the default
\* branch, and with every sub-record whose read succeeded.
C16_ReadToleratesFollowUps ==
  (call.fn = "_get_repo_metadata" /\ pc = "called"
     /\ call.repo.get_repo = "ok") =>
    /\ ret.outcome = "return"
    /\ ret.metadata.present
    /\ ret.metadata.default_branch = call.repo.default_branch
    /\ ret.metadata.actions \cap call.repo.unreadable = {}
    /\ call.repo.get_topics # "ok" => ~ret.metadata.topics

\* C20: _repo_exists answers True for a repository that exists and False
\* only for one that does not (404); every other failure of the lookup is
\* raised again, so that a target that exists is never taken for a missing
\* one and no creation is attempted after a failed lookup.
C20_LookupFailureNotMasked ==
  /\ InTry => (target_exists <=> trace.before.exists)
  /\ "_create_repo" \in trace.did => ~trace.before.exists
  /\ "repo_exists" \in trace.failed =>
       /\ pc = "crashed"
       /\ trace.did = {}
       /\ ~target_exists

C20_Witness ==
  /\ pc = "crashed"
  /\ "repo_exists" \in trace.failed
  /\ trace.before.exists
  /\ target = trace.before

\* The git commands a call ran, as a set.
CommandsRun == {ret.commands[k] : k \in 1..Len(ret.commands)}

\* C21: _mirror_clone returns False exactly when the clone fails, whatever
\* the tag fetch does; outside dry-run mode _push_mirror returns False
\* exactly when the branch push fails, whatever the tag push does; the tag
\* fetch and the tag push are run only after the clone and the branch push
\* succeeded.
C21_TagFailuresNotFatal ==
  /\ (call.fn = "_mirror_clone" /\ pc = "called") =>
       /\ ~ret.returns <=> call.clone_rc # 0
       /\ "fetch_tags" \in CommandsRun <=> call.clone_rc = 0
  /\ (call.fn = "_push_mirror" /\ pc = "called" /\ ~dry_run) =>
       /\ ~ret.returns <=> call.branch_rc # 0
       /\ "push_tags" \in CommandsRun <=> call.branch_rc = 0
       /\ "push_tags" \in CommandsRun =>
            ret.commands = <<"push_branch", "push_tags">>

C21_Witness ==
  /\ call.fn = "_push_mirror"
  /\ pc = "called"
  /\ ~dry_run
  /\ call.branch_rc = 0
  /\ call.tags_rc # 0
  /\ ret.returns
  /\ "push_tags" \in CommandsRun

\* The call in progress met a failing source-metadata read or a snapshot
\* without default_branch.
EarlyFailure ==
  trace.failed \cap {"get_metadata", "no_default_branch"} # {}

\* C22: a failed source-metadata read, or a snapshot without
\* default_branch, ends the pair with a SyncResult of status 'error' and
\* before any effect: no workspace, no clone, no creation, push or metadata
\* write, and the target is what it was.
C22_EarlyErrorNoEffect ==
  EarlyFailure =>
    /\ pc = "returned"
    /\ result.status = "error"
    /\ trace.did = {}
    /\ temp_dir = 0
    /\ workspaces = leftover
    /\ ~target_exists
    /\ ~trace.foreign => target = trace.before

\* C23: the permission verification runs once per sync_all, before the
\* first pair, and whatever it finds (no warning, warnings, unreachable
\* endpoints, an exception) sync_all goes on to the loop over the pairs
\* with nothing changed: no result, no loop position, no configuration and
\* nothing of the hosting service or the filesystem differs from the state
\* before the verification.
C23_VerifierNeverBlocks ==
  /\ [](pc = "verify_permissions" =>
          (i = 1 /\ j = 1 /\ results = <<>> /\ trace = NoTrace))
  /\ [][pc = "verify_permissions" =>
          /\ pc' = "sync_all"
          /\ ret'.fn = "verify_workflow_permissions"
          /\ UNCHANGED <<dry_run, repositories, target_orgs, runs, run, i, j,
                         results, result, source_metadata, target_exists,
                         can_ff, temp_dir, mirror, workspaces, leftover,
                         source, target, held, writes, trace, hist>>]_vars
  /\ [][pc' = "verify_permissions" => pc \in {"exit", "crashed"}]_vars
  /\ [][(pc = "sync_all" /\ pc' # "sync_all") =>
          pc' = (IF i <= Len(repositories) THEN "get_metadata" ELSE "done")]_vars

\* The verification was left by an exception and sync_all is at its loop.
C23_Witness ==
  /\ pc = "sync_all"
  /\ ret.fn = "verify_workflow_permissions"
  /\ ret.raised
  /\ Len(target_orgs) = 2
  /\ results = <<>>

Statuses == {"created", "updated", "skipped", "error"}

\* The pairs whose processing has ended when the process is outside
\* sync_repository: those before the loop position, and after an exception
\* that left sync_repository the pair at the loop position too.
PairsEnded ==
  (i - 1) * Len(target_orgs) + (j - 1) + (IF pc = "crashed" THEN 1 ELSE 0)

\* C24: every pair that ends leaves exactly one SyncResult, with the
\* repo_name and target_org of the pair, a status among created, updated,
\* skipped, error and, unless the status is 'created', a non-empty message;
\* and the four counts of print_summary add up to the number of results.
C24_OneResultPerPair ==
  /\ pc \in {"returned", "finally"} =>
       /\ result.repo_name = repo_name
       /\ result.target_org = target_org
       /\ result.status \in Statuses
       /\ result.status # "created" => result.message # ""
  /\ \A k \in 1..Len(results) : results[k].status \in Statuses
  /\ pc \in {"sync_all", "done", "exit", "crashed"} =>
       Len(results) = PairsEnded
  /\ pc = "exit" =>
       /\ ret.summary.total = Len(results)
       /\ ret.summary.created + ret.summary.updated + ret.summary.skipped
            + ret.summary.errors = ret.summary.total

\* C25: once sync_all has returned, main exits with status 1 exactly when
\* some result has the status 'error', and with status 0 otherwise; a
\* skipped pair does not make the status non-zero.
C25_ExitStatusReflectsErrors ==
  pc = "exit" =>
    /\ ret.status \in {0, 1}
    /\ ret.status = 1 <=>
         \E k \in 1..Len(results) : results[k].status = "error"

\* A batch with a skipped pair and no error, exiting with status 0.
C25_Witness ==
  /\ pc = "exit"
  /\ Len(results) > 1
  /\ \E k \in 1..Len(results) : results[k].status = "skipped"
  /\ \A k \in 1..Len(results) : results[k].status # "error"
  /\ ret.status = 0

\* A call of _get_repo_metadata has returned a snapshot.
SnapshotReturned ==
  /\ call.fn = "_get_repo_metadata"
  /\ pc = "called"
  /\ ret.metadata.present

\* C26 as stated: the snapshot has a workflow_access sub-record only for a
\* private repository, and a selected_actions sub-record only when the
\* permissions sub-record has allowed_actions 'selected'.
C26_AsStated ==
  SnapshotReturned =>
    /\ "workflow_access" \in ret.metadata.actions => call.repo.private
    /\ "selected_actions" \in ret.metadata.actions =>
         /\ "actions_permissions" \in ret.metadata.actions
         /\ call.repo.selected

\* C26, amended: the workflow-access endpoint is asked only for a private
\* repository; the snapshot of a public repository has the sub-record too,
\* holding the marker access_level 'public', and a private one holds what
\* the endpoint answered; selected_actions is present only when the
\* permissions sub-record is present with allowed_actions 'selected'.
C26_SubRecordsConditional ==
  SnapshotReturned =>
    /\ ret.workflow_access.requested => call.repo.private
    /\ "workflow_access" \in ret.metadata.actions <=>
         ret.workflow_access.success
    /\ "workflow_access" \in ret.metadata.actions =>
         (ret.workflow_access.access_level = "public" <=> ~call.repo.private)
    /\ "selected_actions" \in ret.metadata.actions =>
         /\ "actions_permissions" \in ret.metadata.actions
         /\ call.repo.selected

\* The snapshot of a public repository with a workflow_access sub-record.
C26_Witness ==
  /\ SnapshotReturned
  /\ ~call.repo.private
  /\ "workflow_access" \in ret.metadata.actions
  /\ ret.workflow_access.access_level = "public"
  /\ ~ret.workflow_access.requested
  /\ "selected_actions" \notin ret.metadata.actions

\* The call before the one in progress, for the same pair, created the
\* target repository and ended with 'error', and no other writer touched
\* the target during it.
RerunAfterFailedFirstSync ==
  /\ Len(hist) >= 1
  /\ hist[Len(hist)].status = "error"
  /\ hist[Len(hist)].made
  /\ ~hist[Len(hist)].foreign

\* No external operation of the call in progress failed (an ancestor query
\* that cannot resolve a ref is an answer of git about the repositories, not
\* a failing operation) and no other writer moved the target.
NothingFails ==
  /\ trace.failed \subseteq {"merge_base"}
  /\ ~trace.foreign

\* C27: after a first sync that created the target and then ended with
\* 'error', a re-run of the pair in which nothing fails ends 'created' or
\* 'updated' with the target tip equal to the source tip.
C27_RerunRepairs ==
  (pc = "finally" /\ ~dry_run /\ RerunAfterFailedFirstSync /\ NothingFails) =>
    /\ result.status \in {"created", "updated"}
    /\ target.exists
    /\ target.tip = source.tip

\* The branch push of the call in progress failed.
PushFailed == "push" \in trace.failed \/ "rejected" \in trace.did

\* C28: _set_repo_metadata is called, and setting requests reach the
\* target, only after the branch push of the same call succeeded (in
\* dry-run mode: after the push step); a new target receives no setting
\* between its creation and the push, and after a failed push no metadata
\* write-back has happened at all.
C28_MetadataOnlyAfterPush ==
  /\ "_set_repo_metadata" \in trace.did =>
       IF dry_run THEN "_push_mirror" \in trace.did
       ELSE "pushed" \in trace.did
  /\ "metadata_sent" \in trace.did => "pushed" \in trace.did
  /\ PushFailed =>
       {"_set_repo_metadata", "metadata_sent", "metadata_written"}
         \cap trace.did = {}

\* C29: in dry-run mode no call creates a repository, runs a push or
\* sends a setting request, and no step of the process changes the target
\* repository of the pair: a call leaves it as it met it, and it differs
\* after sync_all from before only by what other writers did.
C29_DryRunNoWrites ==
  /\ [](dry_run =>
          /\ TargetWrites \cap trace.did = {}
          /\ (InCall /\ ~trace.foreign) => target = trace.before)
  /\ [][(dry_run /\ held' = held /\ writes' = writes) =>
          target' = target]_vars

\* A dry run of a pair whose target does not exist: the call went through
\* the creation, push and write-back steps and reports 'created'.
C29_Witness ==
  /\ dry_run
  /\ pc = "finally"
  /\ result.status = "created"
  /\ {"_create_repo", "_push_mirror", "_set_repo_metadata"} \subseteq trace.did
  /\ target = AbsentTarget

\* C30: after a write-back that reached its topics step and in which that
\* step did not fail, the topics of the target are the topics of the source
\* snapshot, also when the snapshot has none.
C30_TopicsReplaced ==
  (WriteBackDone /\ {"repository_settings", "topics"} \cap ret.failed = {}) =>
    ret.topics = SnapshotTopics(call.metadata)
====
